---- MODULE Spec2Model ----
(***************************************************************************)
(* Model of ray310/auto_trader:                                            *)
(*   autotrader_server/src/text_to_order_params.py  (signal parser)        *)
(*   autotrader_client/src/ameritrade_orders.py     (order derivation)     *)
(*                                                                         *)
(* A Python str is a sequence of one-character strings.                    *)
(***************************************************************************)
EXTENDS Integers, Sequences, FiniteSets, TLC

VARIABLES
    pc,         \* how far the run is
    message,    \* the chat message that came in
    string,     \* the argument handed to text_to_order_params
    parsed,     \* what text_to_order_params returned
    usr_set,    \* the user's order settings
    ord_params, \* the order parameters the order functions are given
    raised,     \* the exception that left process_bto_order, "no" if none
    locals,     \* order_value and buy_qty of process_bto_order, once computed
    calls,      \* the calls made on the brokerage client, in order
    stderr,     \* what was written to stderr
    pos_qty,    \* the position's long quantity, as get_position_quant returned it
    reduction,  \* sell_qty and keep_qty, as calc_position_reduction returned them
    positions,  \* the positions of the account, as client.get_account reported them
    orders      \* the orders of the account, as client.get_orders_by_query reported them

vars == <<pc, message, string, parsed, usr_set, ord_params, raised, locals, calls, stderr,
          pos_qty, reduction, positions, orders>>

parser_vars == <<message, string, parsed>>
order_vars ==
    <<usr_set, ord_params, raised, locals, calls, stderr, pos_qty, reduction, positions, orders>>

\* None where the code holds a str or None
None == <<"None">>
\* None where the code holds a dict (or a float) or None
NoneDict == [none |-> TRUE]

(***************************************************************************)
(* Characters and the classes the patterns use.                            *)
(***************************************************************************)
UpperAZ == <<"A","B","C","D","E","F","G","H","I","J","K","L","M",
             "N","O","P","Q","R","S","T","U","V","W","X","Y","Z">>
LowerAZ == <<"a","b","c","d","e","f","g","h","i","j","k","l","m",
             "n","o","p","q","r","s","t","u","v","w","x","y","z">>
Digits == {"0","1","2","3","4","5","6","7","8","9"}
UpperSet == {UpperAZ[i] : i \in DOMAIN UpperAZ}
LowerSet == {LowerAZ[i] : i \in DOMAIN LowerAZ}
Punct == {"@", ".", "/", "(", ")", "%", "*", "_", "[", "]", ",", "!", "?", "'", "-", ":"}
\* \s
Whitespace == {" ", "\n", "\t"}
\* \w
WordChars == UpperSet \cup LowerSet \cup Digits \cup {"_"}
Alphabet == UpperSet \cup LowerSet \cup Digits \cup Punct \cup Whitespace
\* \S
NonSpace == Alphabet \ Whitespace

\* the characters that equal c under re.IGNORECASE
CaseFold(c) ==
    {c} \cup {LowerAZ[i] : i \in {j \in DOMAIN UpperAZ : UpperAZ[j] = c}}
        \cup {UpperAZ[i] : i \in {j \in DOMAIN LowerAZ : LowerAZ[j] = c}}

(***************************************************************************)
(* Python's re: a backtracking matcher.  A pattern is a tree; M(r, s, st)  *)
(* is the sequence of threads (position reached, groups captured) that     *)
(* pattern r can end in when started in thread st on string s, in the      *)
(* order in which the engine tries them: greedy repetition tries more      *)
(* first, an alternation its left branch first.  The first thread is the   *)
(* match re reports.  Positions count the characters consumed (0-based     *)
(* offsets as in match.span()).                                            *)
(***************************************************************************)
Cls(S) == [t |-> "cls", set |-> S]
Cat(parts) == [t |-> "cat", parts |-> parts]
Alt(parts) == [t |-> "alt", parts |-> parts]
Rep(r, lo, hi) == [t |-> "rep", r |-> r, lo |-> lo, hi |-> hi]
Grp(n, r) == [t |-> "grp", n |-> n, r |-> r]
\* (?<!c), (?!c), (?=c) for a one-character class c
NotBehind(S) == [t |-> "nbehind", set |-> S]
NotAhead(S) == [t |-> "nahead", set |-> S]
Ahead(S) == [t |-> "ahead", set |-> S]
Lit(str) == Cat([i \in DOMAIN str |-> Cls({str[i]})])
LitCI(str) == Cat([i \in DOMAIN str |-> Cls(CaseFold(str[i]))])

MaxGroups == 7
NoCaps == [n \in 1..MaxGroups |-> <<-1, -1>>]

RECURSIVE M(_, _, _)
RECURSIVE MEach(_, _, _, _)
RECURSIVE MCat(_, _, _, _)
RECURSIVE MAlt(_, _, _, _)
RECURSIVE MRep(_, _, _, _)
RECURSIVE MRepEach(_, _, _, _, _)
RECURSIVE SetCap(_, _, _, _)

\* r applied to each thread of sts, from the i-th on, results in order
MEach(r, s, sts, i) ==
    IF i > Len(sts) THEN <<>> ELSE M(r, s, sts[i]) \o MEach(r, s, sts, i + 1)

MCat(parts, k, s, sts) ==
    IF k > Len(parts) \/ sts = <<>> THEN sts
    ELSE MCat(parts, k + 1, s, MEach(parts[k], s, sts, 1))

MAlt(parts, k, s, st) ==
    IF k > Len(parts) THEN <<>> ELSE M(parts[k], s, st) \o MAlt(parts, k + 1, s, st)

\* greedy r{lo,hi}: n copies matched so far
MRep(r, s, st, n) ==
    (IF n < r.hi THEN MRepEach(r, s, M(r.r, s, st), n + 1, 1) ELSE <<>>)
        \o (IF n >= r.lo THEN <<st>> ELSE <<>>)

MRepEach(r, s, sts, n, i) ==
    IF i > Len(sts) THEN <<>> ELSE MRep(r, s, sts[i], n) \o MRepEach(r, s, sts, n, i + 1)

SetCap(sts, n, from, i) ==
    IF i > Len(sts) THEN <<>>
    ELSE <<[sts[i] EXCEPT !.caps[n] = <<from, sts[i].pos>>]>> \o SetCap(sts, n, from, i + 1)

M(r, s, st) ==
    CASE r.t = "cls" ->
            IF st.pos < Len(s) /\ s[st.pos + 1] \in r.set
            THEN <<[st EXCEPT !.pos = @ + 1]>> ELSE <<>>
      [] r.t = "cat" -> MCat(r.parts, 1, s, <<st>>)
      [] r.t = "alt" -> MAlt(r.parts, 1, s, st)
      [] r.t = "rep" -> MRep(r, s, st, 0)
      [] r.t = "grp" -> SetCap(M(r.r, s, st), r.n, st.pos, 1)
      [] r.t = "nbehind" ->
            IF st.pos > 0 /\ s[st.pos] \in r.set THEN <<>> ELSE <<st>>
      [] r.t = "nahead" ->
            IF st.pos < Len(s) /\ s[st.pos + 1] \in r.set THEN <<>> ELSE <<st>>
      [] r.t = "ahead" ->
            IF st.pos < Len(s) /\ s[st.pos + 1] \in r.set THEN <<st>> ELSE <<>>

NoMatch == [found |-> FALSE]

\* the match of pattern r that starts at offset i, or NoMatch
MatchAt(r, s, i) ==
    LET ends == M(r, s, [pos |-> i, caps |-> NoCaps])
    IN  IF ends = <<>> THEN NoMatch
        ELSE [found |-> TRUE, start |-> i, end |-> ends[1].pos, caps |-> ends[1].caps]

\* the leftmost match starting at offset i or later
RECURSIVE SearchFrom(_, _, _)
SearchFrom(r, s, i) ==
    IF i > Len(s) THEN NoMatch
    ELSE LET m == MatchAt(r, s, i)
         IN  IF m.found THEN m ELSE SearchFrom(r, s, i + 1)

\* re.search(pattern, s)
re_search(r, s) == SearchFrom(r, s, 0)

\* re.finditer(pattern, s): the non-overlapping matches, left to right
RECURSIVE FindIterFrom(_, _, _)
FindIterFrom(r, s, i) ==
    LET m == SearchFrom(r, s, i)
    IN  IF ~m.found THEN <<>>
        ELSE <<m>> \o FindIterFrom(r, s, IF m.end = m.start THEN m.end + 1 ELSE m.end)

re_finditer(r, s) == FindIterFrom(r, s, 0)

\* match.group(n)
Group(s, m, n) == SubSeq(s, m.caps[n][1] + 1, m.caps[n][2])

(***************************************************************************)
(* text_to_order_params.py                                                 *)
(***************************************************************************)
Digit == Cls(Digits)

\* "((?<!\S)BTO|(?<!\S)STC)"
instruction ==
    Grp(1, Alt(<<Cat(<<NotBehind(NonSpace), Lit(<<"B","T","O">>)>>),
                 Cat(<<NotBehind(NonSpace), Lit(<<"S","T","C">>)>>)>>))
\* "([A-Z]{1,5})"
ticker_pattern == Grp(2, Rep(Cls(UpperSet), 1, 5))
\* "([0-9]{1,5}\.[0-9]{1,2}|[0-9]{1,5})"
strike_price ==
    Grp(3, Alt(<<Cat(<<Rep(Digit, 1, 5), Cls({"."}), Rep(Digit, 1, 2)>>),
                 Rep(Digit, 1, 5)>>))
\* "([CP]{1})"
contract_type == Grp(4, Rep(Cls({"C", "P"}), 1, 1))
\* "([0-9]{1,2}/[0-9]{1,2}/[0-9]{4}|[0-9]{1,2}/[0-9]{1,2}/[0-9]{2}|[0-9]{1,2}/[0-9]{1,2})"
expiration_date ==
    Grp(5, Alt(<<
        Cat(<<Rep(Digit, 1, 2), Cls({"/"}), Rep(Digit, 1, 2), Cls({"/"}), Rep(Digit, 4, 4)>>),
        Cat(<<Rep(Digit, 1, 2), Cls({"/"}), Rep(Digit, 1, 2), Cls({"/"}), Rep(Digit, 2, 2)>>),
        Cat(<<Rep(Digit, 1, 2), Cls({"/"}), Rep(Digit, 1, 2)>>)>>))
\* the price without the two look-aheads behind it
contract_price_NoBoundary ==
    Grp(6, Cat(<<Rep(Digit, 0, 3), Cls({"."}), Rep(Digit, 1, 2)>>))

\* "([0-9]{0,3}\.[0-9]{1,2}((?!\S)|(?=[(])))"
contract_price ==
    Grp(6, Cat(<<Rep(Digit, 0, 3), Cls({"."}), Rep(Digit, 1, 2),
                 Grp(7, Alt(<<NotAhead(NonSpace), Ahead({"("})>>))>>))
\* "\s{1,2}"
space == Rep(Cls(Whitespace), 1, 2)
\* "@\s{0,1}"
at == Cat(<<Cls({"@"}), Rep(Cls(Whitespace), 0, 1)>>)

regex_pattern ==
    Cat(<<instruction, space, ticker_pattern, space, strike_price, contract_type,
          space, expiration_date, space, at, contract_price>>)

RECURSIVE Remove(_, _)
\* str.replace(c, "")
Remove(str, c) ==
    IF str = <<>> THEN <<>>
    ELSE (IF Head(str) = c THEN <<>> ELSE <<Head(str)>>) \o Remove(Tail(str), c)

strip_markdown(str) == Remove(Remove(str, "*"), "_")

\* "(SL\s{0,1}@\s{0,1})" + "([0-9]{0,3}\.[0-9]{1,2}((?!\S)|(?=[)])))"
sl_pattern ==
    Cat(<<Grp(1, Cat(<<Lit(<<"S","L">>), Rep(Cls(Whitespace), 0, 1), Cls({"@"}),
                       Rep(Cls(Whitespace), 0, 1)>>)),
          Grp(2, Cat(<<Rep(Digit, 0, 3), Cls({"."}), Rep(Digit, 1, 2),
                       Grp(3, Alt(<<NotAhead(NonSpace), Ahead({")"})>>))>>))>>)

parse_sl(comments) ==
    LET match == re_search(sl_pattern, comments)
    IN  IF match.found THEN Group(comments, match, 2) ELSE None

\* "(?<!\w)((risky)|(daytrade)|(small\sposition)|(light\sposition))(?!\w)", IGNORECASE
risk_pattern ==
    Cat(<<NotBehind(WordChars),
          Grp(1, Alt(<<
            Grp(2, LitCI(<<"r","i","s","k","y">>)),
            Grp(3, LitCI(<<"d","a","y","t","r","a","d","e">>)),
            Grp(4, Cat(<<LitCI(<<"s","m","a","l","l">>), Cls(Whitespace),
                         LitCI(<<"p","o","s","i","t","i","o","n">>)>>)),
            Grp(5, Cat(<<LitCI(<<"l","i","g","h","t">>), Cls(Whitespace),
                         LitCI(<<"p","o","s","i","t","i","o","n">>)>>))>>)),
          NotAhead(WordChars)>>)

high_risk == <<"h","i","g","h"," ","r","i","s","k">>

parse_risk(comments) ==
    IF re_search(risk_pattern, comments).found THEN high_risk ELSE None

\* "(?<!\w)(closing|trim)(\s)([0-9]{1,3}%)(?!\w)", IGNORECASE
reduce_pattern ==
    Cat(<<NotBehind(WordChars),
          Grp(1, Alt(<<LitCI(<<"c","l","o","s","i","n","g">>), LitCI(<<"t","r","i","m">>)>>)),
          Grp(2, Cls(Whitespace)),
          Grp(3, Cat(<<Rep(Digit, 1, 3), Cls({"%"})>>)),
          NotAhead(WordChars)>>)

parse_reduce(comments) ==
    LET match == re_search(reduce_pattern, comments)
    IN  IF match.found THEN Group(comments, match, 3) ELSE None

\* the record text_to_order_params starts from
EmptyOrderParams ==
    [instruction |-> None, ticker |-> None, strike_price |-> None,
     contract_type |-> None, expiration |-> None, contract_price |-> None,
     comments |-> None, flags |-> [SL |-> None, risk_level |-> None, reduce |-> None]]

\* FillOrderParams with the flags parsed whatever the instruction is
FillOrderParams_AnyInstruction(clean_string, match) ==
    LET comments == SubSeq(clean_string, match.end + 1, Len(clean_string))
    IN  [instruction |-> Group(clean_string, match, 1),
         ticker |-> Group(clean_string, match, 2),
         strike_price |-> Group(clean_string, match, 3),
         contract_type |-> Group(clean_string, match, 4),
         expiration |-> Group(clean_string, match, 5),
         contract_price |-> Group(clean_string, match, 6),
         comments |-> IF comments = <<>> THEN None ELSE comments,
         flags |-> IF comments = <<>> THEN EmptyOrderParams.flags
                   ELSE [SL |-> parse_sl(comments), risk_level |-> parse_risk(comments),
                         reduce |-> parse_reduce(comments)]]

\* order_params as filled from the one match, on the string it was found in
FillOrderParams(clean_string, match) ==
    LET instr == Group(clean_string, match, 1)
        comments == SubSeq(clean_string, match.end + 1, Len(clean_string))
        flags ==
            IF comments = <<>> THEN EmptyOrderParams.flags
            ELSE IF instr = <<"B","T","O">>
                 THEN [SL |-> parse_sl(comments), risk_level |-> parse_risk(comments),
                       reduce |-> None]
            ELSE IF instr = <<"S","T","C">>
                 THEN [SL |-> None, risk_level |-> None, reduce |-> parse_reduce(comments)]
            ELSE EmptyOrderParams.flags
    IN  [instruction |-> instr,
         ticker |-> Group(clean_string, match, 2),
         strike_price |-> Group(clean_string, match, 3),
         contract_type |-> Group(clean_string, match, 4),
         expiration |-> Group(clean_string, match, 5),
         contract_price |-> Group(clean_string, match, 6),
         comments |-> IF comments = <<>> THEN None ELSE comments,
         flags |-> flags]

\* text_to_order_params taking the first match when there are several
text_to_order_params_FirstMatch(str) ==
    LET clean_string == strip_markdown(str)
        matches == re_finditer(regex_pattern, clean_string)
    IN  IF Len(matches) >= 1 THEN FillOrderParams(clean_string, matches[1]) ELSE NoneDict

\* text_to_order_params matching on the string as given, markdown included
text_to_order_params_NoStrip(str) ==
    LET matches == re_finditer(regex_pattern, str)
    IN  IF Len(matches) = 1 THEN FillOrderParams(str, matches[1]) ELSE NoneDict

\* the parameters, or None "if order_params == {... all None ...}"
text_to_order_params(str) ==
    LET clean_string == strip_markdown(str)
        matches == re_finditer(regex_pattern, clean_string)
        order_params ==
            IF Len(matches) = 1 THEN FillOrderParams(clean_string, matches[1])
            ELSE EmptyOrderParams
    IN  IF order_params = EmptyOrderParams THEN NoneDict ELSE order_params

(***************************************************************************)
(* Python's float: an IEEE 754 binary64.  A float is kept as its exact     *)
(* value s * m * 2^e, with m a natural number of any size written in limbs *)
(* of 15 bits, least significant first (<<>> is 0).  Every operation of    *)
(* the code is the exact operation followed by rounding to the nearest     *)
(* number with a 53-bit significand, ties to even.  The values of the      *)
(* model stay far from the subnormal range and from overflow.              *)
(***************************************************************************)
LimbBits == 15
LimbBase == 32768
SignificandBits == 53

Limb(a, i) == IF i <= Len(a) THEN a[i] ELSE 0

RECURSIVE BNorm(_)
BNorm(a) ==
    IF a # <<>> /\ a[Len(a)] = 0 THEN BNorm(SubSeq(a, 1, Len(a) - 1)) ELSE a

RECURSIVE BFromNat(_)
BFromNat(n) == IF n = 0 THEN <<>> ELSE <<n % LimbBase>> \o BFromNat(n \div LimbBase)

RECURSIVE BToNat(_)
BToNat(a) == IF a = <<>> THEN 0 ELSE a[1] + LimbBase * BToNat(Tail(a))

RECURSIVE BAddFrom(_, _, _, _)
BAddFrom(a, b, i, c) ==
    IF i > Len(a) /\ i > Len(b) THEN (IF c = 0 THEN <<>> ELSE <<c>>)
    ELSE LET x == Limb(a, i) + Limb(b, i) + c
         IN  <<x % LimbBase>> \o BAddFrom(a, b, i + 1, x \div LimbBase)
BAdd(a, b) == BAddFrom(a, b, 1, 0)

RECURSIVE BSubFrom(_, _, _, _)
BSubFrom(a, b, i, c) ==
    IF i > Len(a) THEN <<>>
    ELSE LET x == a[i] - Limb(b, i) - c
         IN  <<x % LimbBase>> \o BSubFrom(a, b, i + 1, IF x < 0 THEN 1 ELSE 0)
\* a - b, for a >= b
BSub(a, b) == BNorm(BSubFrom(a, b, 1, 0))

RECURSIVE BCmpFrom(_, _, _)
BCmpFrom(a, b, i) ==
    IF i = 0 THEN 0
    ELSE IF a[i] < b[i] THEN -1
    ELSE IF a[i] > b[i] THEN 1
    ELSE BCmpFrom(a, b, i - 1)
\* -1, 0, 1 as a < b, a = b, a > b
BCmp(a, b) ==
    IF Len(a) < Len(b) THEN -1
    ELSE IF Len(a) > Len(b) THEN 1
    ELSE BCmpFrom(a, b, Len(a))

RECURSIVE BMulSmallFrom(_, _, _, _)
BMulSmallFrom(a, k, i, c) ==
    IF i > Len(a) THEN BFromNat(c)
    ELSE LET x == a[i] * k + c
         IN  <<x % LimbBase>> \o BMulSmallFrom(a, k, i + 1, x \div LimbBase)
\* a * k, for k <= LimbBase
BMulSmall(a, k) == IF k = 0 THEN <<>> ELSE BMulSmallFrom(a, k, 1, 0)

BShiftLimbs(a, n) == IF a = <<>> THEN <<>> ELSE [i \in 1..n |-> 0] \o a

RECURSIVE BMulFrom(_, _, _)
BMulFrom(a, b, i) ==
    IF i > Len(b) THEN <<>>
    ELSE BAdd(BShiftLimbs(BMulSmall(a, b[i]), i - 1), BMulFrom(a, b, i + 1))
BMul(a, b) == BMulFrom(a, b, 1)

\* a * 2^n
BShl(a, n) == BShiftLimbs(BMulSmall(a, 2 ^ (n % LimbBits)), n \div LimbBits)

BPow2(n) == BShl(<<1>>, n)

RECURSIVE BDivModSmallFrom(_, _, _, _)
BDivModSmallFrom(a, k, i, r) ==
    IF i = 0 THEN [q |-> <<>>, r |-> r]
    ELSE LET x == r * LimbBase + a[i]
             rest == BDivModSmallFrom(a, k, i - 1, x % k)
         IN  [q |-> Append(rest.q, x \div k), r |-> rest.r]
\* a quotient without its leading zero limbs
BNormQuotient(d) == [q |-> BNorm(d.q), r |-> d.r]
\* quotient (limbs) and remainder (a number) of a by k, for 0 < k <= LimbBase
BDivModSmall(a, k) == BNormQuotient(BDivModSmallFrom(a, k, Len(a), 0))

RECURSIVE SmallBitLen(_)
SmallBitLen(n) == IF n = 0 THEN 0 ELSE 1 + SmallBitLen(n \div 2)
BBitLen(a) == IF a = <<>> THEN 0 ELSE LimbBits * (Len(a) - 1) + SmallBitLen(a[Len(a)])

\* bit j of a, bit 0 the least significant
BBit(a, j) == (Limb(a, j \div LimbBits + 1) \div 2 ^ (j % LimbBits)) % 2

RECURSIVE BDigit(_, _, _, _)
\* the largest d in lo..hi with d * b <= r, lo being such a d
BDigit(r, b, lo, hi) ==
    IF lo >= hi THEN lo
    ELSE LET mid == (lo + hi + 1) \div 2
         IN  IF BCmp(BMulSmall(b, mid), r) <= 0
             THEN BDigit(r, b, mid, hi) ELSE BDigit(r, b, lo, mid - 1)

RECURSIVE BDivModFrom(_, _, _, _)
\* the digit d goes in front of the quotient of the limbs below
BDivModPut(rest, d) == [q |-> Append(rest.q, d), r |-> rest.r]
BDivModDigit(a, b, i, r2, d) ==
    BDivModPut(BDivModFrom(a, b, i - 1, BSub(r2, BMulSmall(b, d))), d)
\* the digit lies between the quotients of the two leading limbs of r2 by
\* the leading limb of b plus one and by that limb
BDivModLimb(a, b, i, r2) ==
    LET n == Len(b)
        rt == Limb(r2, n + 1) * LimbBase + Limb(r2, n)
        hi == (rt + 1) \div b[n]
    IN  BDivModDigit(a, b, i, r2,
                     BDigit(r2, b, rt \div (b[n] + 1),
                            IF hi >= LimbBase THEN LimbBase - 1 ELSE hi))
\* long division, one limb of a at a time from limb i down; r is what is left
\* of the limbs above, r < b
BDivModFrom(a, b, i, r) ==
    IF i = 0 THEN [q |-> <<>>, r |-> r] ELSE BDivModLimb(a, b, i, BNorm(<<a[i]>> \o r))
\* a remainder below LimbBase, in limbs
BLimbRemainder(d) == [q |-> d.q, r |-> BFromNat(d.r)]
\* quotient and remainder (both in limbs) of a by b, for b > 0
BDivMod(a, b) ==
    IF Len(b) = 1 THEN BLimbRemainder(BDivModSmall(a, b[1]))
    ELSE BNormQuotient(BDivModFrom(a, b, Len(a), <<>>))

\* quotient and remainder of a by 2^n
BShrJoin(a, k, d) ==
    [q |-> d.q,
     r |-> BNorm(SubSeq(a, 1, IF k < Len(a) THEN k ELSE Len(a)) \o BFromNat(d.r))]
BShr(a, n) ==
    BShrJoin(a, n \div LimbBits,
             BDivModSmall(SubSeq(a, (n \div LimbBits) + 1, Len(a)), 2 ^ (n % LimbBits)))

FZero == [s |-> 1, m |-> <<>>, e |-> 0]
IsZero(a) == a.m = <<>>

\* cut.q * 2^e, rounded up or not as what was cut off (compared with a half
\* of the last bit: half) and sticky say, ties to even
RoundUp(s, cut, half, sticky, e) ==
    [s |-> s,
     m |-> IF \/ half > 0
              \/ half = 0 /\ sticky
              \/ half = 0 /\ ~sticky /\ BBit(cut.q, 0) = 1
           THEN BAdd(cut.q, <<1>>) ELSE cut.q,
     e |-> e]
RoundCut(s, cut, d, sticky, e) == RoundUp(s, cut, BCmp(cut.r, BPow2(d - 1)), sticky, e + d)
\* q * 2^e with the d lowest bits of q dropped
RoundDrop(s, q, sticky, e, d) ==
    IF d <= 0 THEN [s |-> s, m |-> q, e |-> e] ELSE RoundCut(s, BShr(q, d), d, sticky, e)
\* q * 2^e, q a natural number and sticky saying that something below q's
\* last bit was cut off already, rounded to a 53-bit significand
RoundBits(s, q, sticky, e) == RoundDrop(s, q, sticky, e, BBitLen(q) - SignificandBits)

FRoundQuotient(s, d, e) == RoundBits(s, d.q, d.r # <<>>, e)
\* the quotient of num * 2^k by den has bits enough to round
FRoundScaled(s, num, den, e, k) == FRoundQuotient(s, BDivMod(BShl(num, k), den), e - k)
FRoundNeed(s, num, den, e, need) == FRoundScaled(s, num, den, e, IF need > 0 THEN need ELSE 0)
\* the float nearest to s * (num / den) * 2^e, for den > 0
FRound(s, num, den, e) ==
    IF num = <<>> THEN FZero
    ELSE FRoundNeed(s, num, den, e,
                    IF den = <<1>> THEN 0
                    ELSE SignificandBits + 2 + BBitLen(den) - BBitLen(num))

\* float(n) for an int n
FInt(n) == [s |-> IF n < 0 THEN -1 ELSE 1, m |-> BFromNat(IF n < 0 THEN -n ELSE n), e |-> 0]

\* the float a decimal literal writes: n / 10^digits
FDec(n, digits) == FRound(1, BFromNat(n), BFromNat(10 ^ digits), 0)

FNeg(a) == IF IsZero(a) THEN a ELSE [a EXCEPT !.s = -a.s]

\* the sign of a - b: -1, 0, 1
FCmp(a, b) ==
    LET e == IF a.e < b.e THEN a.e ELSE b.e
        ma == BShl(a.m, a.e - e)
        mb == BShl(b.m, b.e - e)
    IN  IF a.s # b.s THEN (IF IsZero(a) /\ IsZero(b) THEN 0 ELSE a.s)
        ELSE a.s * BCmp(ma, mb)

FLess(a, b) == FCmp(a, b) < 0
FLessEq(a, b) == FCmp(a, b) <= 0
FEq(a, b) == FCmp(a, b) = 0

\* a + b, the significands ma and mb brought to the exponent e, c the sign
\* of ma - mb
FAddSum(a, b, ma, mb, c, e) ==
    IF a.s # b.s /\ c = 0 THEN FZero
    ELSE FRound(IF a.s = b.s \/ c > 0 THEN a.s ELSE b.s,
                IF a.s = b.s THEN BAdd(ma, mb)
                ELSE BSub(IF c > 0 THEN ma ELSE mb, IF c > 0 THEN mb ELSE ma),
                <<1>>, e)
FAddAligned(a, b, ma, mb, e) == FAddSum(a, b, ma, mb, BCmp(ma, mb), e)
FAddAt(a, b, e) == FAddAligned(a, b, BShl(a.m, a.e - e), BShl(b.m, b.e - e), e)
\* a + b
FAdd(a, b) == FAddAt(a, b, IF a.e < b.e THEN a.e ELSE b.e)

\* a - b
FSub(a, b) == FAdd(a, FNeg(b))

\* a * b
FMul(a, b) == FRound(a.s * b.s, BMul(a.m, b.m), <<1>>, a.e + b.e)

\* a / b, for b # 0 (Python raises ZeroDivisionError for b = 0)
FDiv(a, b) == FRound(a.s * b.s, a.m, b.m, a.e - b.e)

\* the whole part and what is left of |a|: |a| = q + r / 2^(-e)
FSplit(a) ==
    IF a.e >= 0 THEN [q |-> BShl(a.m, a.e), r |-> <<>>] ELSE BShr(a.m, -a.e)

\* int(a): truncation towards zero
FTrunc(a) == a.s * BToNat(FSplit(a).q)

FCeilSplit(s, p) ==
    IF s > 0 THEN BToNat(p.q) + (IF p.r # <<>> THEN 1 ELSE 0) ELSE -BToNat(p.q)
\* math.ceil(a)
FCeil(a) == FCeilSplit(a.s, FSplit(a))

\* p.q hundredths and a rest that compares with half a hundredth as half says
FRound2Nearest(s, p, half) ==
    FRound(s,
           IF half > 0 \/ (half = 0 /\ BBit(p.q, 0) = 1) THEN BAdd(p.q, <<1>>) ELSE p.q,
           <<100>>, 0)
FRound2Split(a, p) ==
    FRound2Nearest(a.s, p, IF a.e >= 0 THEN -1 ELSE BCmp(p.r, BPow2(-a.e - 1)))
\* round(a, 2): the exact value rounded to hundredths, ties to even, and the
\* float nearest to that decimal
FRound2(a) ==
    FRound2Split(a, IF a.e >= 0 THEN [q |-> BShl(BMulSmall(a.m, 100), a.e), r |-> <<>>]
                    ELSE BShr(BMulSmall(a.m, 100), -a.e))

(***************************************************************************)
(* ameritrade_orders.py                                                    *)
(***************************************************************************)
DigitSeq == <<"0","1","2","3","4","5","6","7","8","9">>
DigitVal(c) == (CHOOSE i \in DOMAIN DigitSeq : DigitSeq[i] = c) - 1

\* str(n) of a natural number below 1000
NatStr(n) ==
    IF n < 10 THEN <<DigitSeq[n + 1]>>
    ELSE IF n < 100 THEN <<DigitSeq[(n \div 10) + 1], DigitSeq[(n % 10) + 1]>>
    ELSE <<DigitSeq[(n \div 100) + 1], DigitSeq[((n \div 10) % 10) + 1], DigitSeq[(n % 10) + 1]>>

RECURSIVE NatOf(_)
\* int(ds) for a string of decimal digits (0 for the empty string)
NatOf(ds) ==
    IF ds = <<>> THEN 0 ELSE 10 * NatOf(SubSeq(ds, 1, Len(ds) - 1)) + DigitVal(ds[Len(ds)])

\* float(str) for a string of the shape the price patterns accept:
\* digits, ".", digits
StrToFloat(str) ==
    LET dot == CHOOSE i \in DOMAIN str : str[i] = "."
        whole == SubSeq(str, 1, dot - 1)
        frac == SubSeq(str, dot + 1, Len(str))
    IN  FDec(NatOf(whole \o frac), Len(frac))

IsBTO(op) == op.instruction = <<"B","T","O">>
IsSTC(op) == op.instruction = <<"S","T","C">>

\* an exception leaving a function, and a value returned by it
Raise(exc) == [ok |-> FALSE, exc |-> exc]
Return(val) == [ok |-> TRUE, val |-> val]

\* standard lot size value
lot_size == 100

\* quantity = ord_val / lot_value; return int(quantity)
buy_order_quantity(ord_val, lot_value) ==
    IF IsZero(lot_value) THEN Raise("ZeroDivisionError")
    ELSE Return(FTrunc(FDiv(ord_val, lot_value)))

calc_buy_order_quantity(price, ord_val, limit_percent) ==
    buy_order_quantity(ord_val,
                       FMul(FMul(price, FInt(lot_size)), FAdd(FInt(1), limit_percent)))

calc_buy_limit_price(cp, buy_limit_percent) ==
    FRound2(FMul(cp, FAdd(FInt(1), buy_limit_percent)))

\* reached only with contract_price # 0 (buy_qty >= 1 was computed from it)
calc_sl_percentage(cp, sl_price) == FDiv(FSub(cp, sl_price), cp)

calc_sl_price(cp, sl_percent) == FRound2(FMul(cp, FSub(FInt(1), sl_percent)))

\* tda.orders.options.OptionSymbol(...).build(): the contract the order names
build_option_symbol(op) ==
    <<op.ticker, op.expiration, op.contract_type, op.strike_price>>

build_stc_stop_market_order(symbol, qty, stop_price) ==
    [instruction |-> "SELL_TO_CLOSE", order_type |-> "STOP", duration |-> "GOOD_TILL_CANCEL",
     symbol |-> symbol, quantity |-> qty, stop_price |-> FRound2(stop_price)]

build_bto_order_w_stop_loss(option_symbol, qty, buy_lim_price, sl_price) ==
    [strategy |-> "TRIGGER",
     first |-> [instruction |-> "BUY_TO_OPEN", order_type |-> "LIMIT",
                duration |-> "FILL_OR_KILL", symbol |-> option_symbol,
                quantity |-> qty, price |-> buy_lim_price],
     second |-> build_stc_stop_market_order(option_symbol, qty, sl_price)]

\* the comparison of lines 129-130 turned around
conservative_sl_percent_Larger(rec_sl_percent, usr_sl_percent) ==
    IF FLess(usr_sl_percent, rec_sl_percent) THEN rec_sl_percent ELSE usr_sl_percent

\* if rec_sl_percent < usr_set["SL_percent"]: sl_percent = rec_sl_percent
conservative_sl_percent(rec_sl_percent, usr_sl_percent) ==
    IF FLess(rec_sl_percent, usr_sl_percent) THEN rec_sl_percent ELSE usr_sl_percent

\* "Use more conservative SL if there are two"
sl_percent_chosen(op, us) ==
    IF op.flags.SL # None
    THEN conservative_sl_percent(
             calc_sl_percentage(op.contract_price, StrToFloat(op.flags.SL)), us.SL_percent)
    ELSE us.SL_percent

\* place_bto_order with the order placed whatever the quantity is
place_bto_order_Always(op, us, order_value, buy_qty) ==
    IF ~buy_qty.ok
    THEN [raised |-> buy_qty.exc, locals |-> NoneDict, calls |-> <<>>, stderr |-> <<>>]
    ELSE IF TRUE
    THEN [raised |-> "no",
          locals |-> [order_value |-> order_value, buy_qty |-> buy_qty.val],
          calls |-> <<[call |-> "place_order",
                       order_spec |-> build_bto_order_w_stop_loss(
                           build_option_symbol(op), buy_qty.val,
                           calc_buy_limit_price(op.contract_price, us.buy_limit_percent),
                           calc_sl_price(op.contract_price, sl_percent_chosen(op, us)))]>>,
          stderr |-> <<>>]
    ELSE [raised |-> "no",
          locals |-> [order_value |-> order_value, buy_qty |-> buy_qty.val],
          calls |-> <<>>,
          stderr |-> <<"purchase quantity is 0">>]

\* process_bto_order from `if buy_qty >= 1` on: how it ends (an exception
\* or a return), order_value and buy_qty as computed, the calls made on the
\* client, what went to stderr
place_bto_order(op, us, order_value, buy_qty) ==
    IF ~buy_qty.ok
    THEN [raised |-> buy_qty.exc, locals |-> NoneDict, calls |-> <<>>, stderr |-> <<>>]
    ELSE IF buy_qty.val >= 1
    THEN [raised |-> "no",
          locals |-> [order_value |-> order_value, buy_qty |-> buy_qty.val],
          calls |-> <<[call |-> "place_order",
                       order_spec |-> build_bto_order_w_stop_loss(
                           build_option_symbol(op), buy_qty.val,
                           calc_buy_limit_price(op.contract_price, us.buy_limit_percent),
                           calc_sl_price(op.contract_price, sl_percent_chosen(op, us)))]>>,
          stderr |-> <<>>]
    ELSE [raised |-> "no",
          locals |-> [order_value |-> order_value, buy_qty |-> buy_qty.val],
          calls |-> <<>>,
          stderr |-> <<"purchase quantity is 0">>]

\* the order value the risk level selects
order_value_for(op, us) ==
    IF op.flags.risk_level = high_risk THEN us.high_risk_ord_val ELSE us.max_ord_val

process_bto_order(op, us) ==
    place_bto_order(op, us, order_value_for(op, us),
                    calc_buy_order_quantity(op.contract_price, order_value_for(op, us),
                                            us.buy_limit_percent))

\* sell_qty rounded down instead of up
sell_quantity_Floor(pos, pct) == FTrunc(FMul(pos, pct))

\* sell_qty = math.ceil(pos_qty * percent)
sell_quantity(pos, pct) == FCeil(FMul(pos, pct))

\* keep_qty = pos_qty - sell_qty; return sell_qty, keep_qty
reduction_of(pos, sell_qty) == [sell_qty |-> sell_qty, keep_qty |-> FSub(pos, FInt(sell_qty))]

\* sell / keep quantities; pos is the float get_position_quant returns
calc_position_reduction(pos, pct) == reduction_of(pos, sell_quantity(pos, pct))

RECURSIVE get_position_quant(_, _)
\* the long quantity of the first position in the symbol, None when there is none
get_position_quant(account, symbol) ==
    IF account = <<>> THEN NoneDict
    ELSE IF Head(account).symbol = symbol THEN FInt(Head(account).longQuantity)
    ELSE get_position_quant(Tail(account), symbol)

\* the order's id as a str if the order is an in-effect single-leg STC order
\* for the symbol, else None
check_stc_order(order, symbol) ==
    IF /\ order.status \in {"WORKING", "QUEUED", "ACCEPTED"}
       /\ Len(order.orderLegCollection) = 1
       /\ order.orderLegCollection[1].symbol = symbol
       /\ order.orderLegCollection[1].instruction = "SELL_TO_CLOSE"
    THEN NatStr(order.orderId)
    ELSE None

\* what one order of the summary appends to order_ids: the order itself, or
\* else the first child of a TRIGGER order
existing_stc_order(order, symbol) ==
    IF check_stc_order(order, symbol) # None THEN <<check_stc_order(order, symbol)>>
    ELSE IF order.orderStrategyType = "TRIGGER"
              /\ check_stc_order(order.childOrderStrategies[1], symbol) # None
         THEN <<check_stc_order(order.childOrderStrategies[1], symbol)>>
         ELSE <<>>

RECURSIVE get_existing_stc_orders(_, _)
get_existing_stc_orders(summary, symbol) ==
    IF summary = <<>> THEN <<>>
    ELSE existing_stc_order(Head(summary), symbol)
             \o get_existing_stc_orders(Tail(summary), symbol)

\* tda.orders.options.option_sell_to_close_market(symbol, pos_qty)
build_stc_market_order(symbol, qty) ==
    [instruction |-> "SELL_TO_CLOSE", order_type |-> "MARKET", duration |-> "DAY",
     symbol |-> symbol, quantity |-> qty]

\* client.place_order(acct_num, order_spec=...) and client.cancel_order(ord_id, acct_num)
PlaceOrder(order_spec) == [call |-> "place_order", order_spec |-> order_spec]
CancelOrder(ord_id) == [call |-> "cancel_order", order_id |-> ord_id]

\* for ord_id in existing_stc_ids: client.cancel_order(ord_id, acct_num)
cancel_existing(existing_stc_ids) ==
    [i \in DOMAIN existing_stc_ids |-> CancelOrder(existing_stc_ids[i])]

\* the stop-market placed whatever is kept
replacement_stop_Always(symbol, keep_qty, new_sl_price) ==
    <<PlaceOrder(build_stc_stop_market_order(symbol, keep_qty, new_sl_price))>>

\* if keep_qty > 0: place an STC stop-market for the remainder
replacement_stop(symbol, keep_qty, new_sl_price) ==
    IF FLess(FZero, keep_qty)
    THEN <<PlaceOrder(build_stc_stop_market_order(symbol, keep_qty, new_sl_price))>>
    ELSE <<>>

\* sell the suggested %, then issue a new STC stop-market for the remainder
reduce_position(symbol, red, new_sl_price) ==
    <<PlaceOrder(build_stc_market_order(symbol, red.sell_qty))>>
        \o replacement_stop(symbol, red.keep_qty, new_sl_price)

\* one contract sold instead of the position
sell_entire_position_One(symbol, pos) == <<PlaceOrder(build_stc_market_order(symbol, FInt(1)))>>

\* else sell the entire position
sell_entire_position(symbol, pos) == <<PlaceOrder(build_stc_market_order(symbol, pos))>>

\* lines 207-231: the orders placed for a position that is held
sell_position(op, us, symbol, pos) ==
    IF op.flags.reduce # NoneDict
    THEN reduce_position(symbol, calc_position_reduction(pos, op.flags.reduce),
                         calc_sl_price(op.contract_price, us.SL_percent))
    ELSE sell_entire_position(symbol, pos)

\* the test without `pos_qty >= 1`
position_held_Any(pos) == pos # NoneDict

\* pos_qty is not None and pos_qty >= 1
position_held(pos) == pos # NoneDict /\ FLessEq(FInt(1), pos)

\* the position sold before the existing orders are cancelled
stc_calls_SellFirst(op, us, symbol, pos, existing_stc_ids) ==
    sell_position(op, us, symbol, pos) \o cancel_existing(existing_stc_ids)

\* lines 198-231: cancel the existing STC orders, then sell
stc_calls(op, us, symbol, pos, existing_stc_ids) ==
    cancel_existing(existing_stc_ids) \o sell_position(op, us, symbol, pos)

\* sell_qty, keep_qty of process_stc_order, None where they are not computed
stc_reduction(op, pos) ==
    IF position_held(pos) /\ op.flags.reduce # NoneDict
    THEN calc_position_reduction(pos, op.flags.reduce)
    ELSE NoneDict

\* process_stc_order once the position has been looked up
stc_order(op, us, symbol, pos, summary) ==
    IF position_held(pos)
    THEN stc_calls(op, us, symbol, pos, get_existing_stc_orders(summary, symbol))
    ELSE <<>>

\* the calls process_stc_order makes on the client after the two queries;
\* account and summary are what the brokerage answered
process_stc_order(op, us, account, summary) ==
    stc_order(op, us, build_option_symbol(op),
              get_position_quant(account, build_option_symbol(op)), summary)

(***************************************************************************)
(* Between the parser and initialize_order the client turns the strings of *)
(* the message into what the order functions compute with (src.            *)
(* validate_params, of which the repository's order code only shows the    *)
(* use): contract_price becomes a float, the reduce flag "NN%" the         *)
(* fraction NN / 100.                                                      *)
(***************************************************************************)
ReducePercent(flag) == NatOf(SubSeq(flag, 1, Len(flag) - 1))

ReduceToFraction(flag) == FDiv(FInt(ReducePercent(flag)), FInt(100))

ValidatedOrderParams(op) ==
    [op EXCEPT !.contract_price = StrToFloat(@),
               !.flags = [SL |-> op.flags.SL, risk_level |-> op.flags.risk_level,
                          reduce |-> IF op.flags.reduce = None THEN NoneDict
                                     ELSE ReduceToFraction(op.flags.reduce)]]

(***************************************************************************)
(* The messages the parser is run on: an optional character in front, a    *)
(* signal, and up to MaxTail fragments behind it (separators, markdown,    *)
(* comments carrying flags, a second signal).                              *)
(***************************************************************************)
MaxTail == 2

\* "BTO INTC 50C 12/31 @0.45"
SignalBTO ==
    <<"B","T","O"," ","I","N","T","C"," ","5","0","C"," ","1","2","/","3","1"," ",
      "@","0",".","4","5">>
\* "STC X 5.5P 1/2/21 @ .4"
SignalSTC ==
    <<"S","T","C"," ","X"," ","5",".","5","P"," ","1","/","2","/","2","1"," ","@"," ",".","4">>
\* "BTO INTC 50C **12/31** __@0.45__"
SignalMarkdown ==
    <<"B","T","O"," ","I","N","T","C"," ","5","0","C"," ","*","*","1","2","/","3","1","*","*",
      " ","_","_","@","0",".","4","5","_","_">>

Pres == {<<>>, <<"x">>}
Heads == {SignalBTO, SignalSTC, SignalMarkdown}
TailFrags ==
    { <<" ">>, <<"*">>, <<"_">>, <<"x">>,
      <<"(","S","L"," ","@",".","3","5",")">>,
      <<" ","r","i","s","k","y">>,
      <<"(","C","l","o","s","i","n","g"," ","5","0","%",")">>,
      <<" ","t","r","i","m"," ","1","5","0","%">>,
      <<" ">> \o SignalBTO }

RECURSIVE Tails(_)
Tails(n) ==
    IF n = 0 THEN {<<>>}
    ELSE Tails(n - 1) \cup {t \o f : t \in Tails(n - 1), f \in TailFrags}

Messages == {p \o h \o t : p \in Pres, h \in Heads, t \in Tails(MaxTail)}

\* nothing of the order code has run
NoOrderYet ==
    /\ usr_set = NoneDict /\ ord_params = NoneDict /\ raised = "no" /\ locals = NoneDict
    /\ calls = <<>> /\ stderr = <<>> /\ pos_qty = NoneDict /\ reduction = NoneDict
    /\ positions = <<>> /\ orders = <<>>

InitParse ==
    /\ pc = "start"
    /\ message \in Messages
    /\ string = message
    /\ parsed = NoneDict
    /\ NoOrderYet

\* a caller that strips the markdown itself before it calls the parser
StripMarkdown ==
    /\ pc = "start"
    /\ string' = strip_markdown(string)
    /\ pc' = "stripped"
    /\ UNCHANGED <<message, parsed>>
    /\ UNCHANGED order_vars

TextToOrderParams ==
    /\ pc \in {"start", "stripped"}
    /\ parsed' = text_to_order_params(string)
    /\ pc' = "done"
    /\ UNCHANGED <<message, string>>
    /\ UNCHANGED order_vars

NextParse == StripMarkdown \/ TextToOrderParams

Spec == InitParse /\ [][NextParse]_vars

(***************************************************************************)
(* What may follow a signal: a signal, then nothing or any one character,  *)
(* then nothing or more text.                                              *)
(***************************************************************************)
FollowHeads == {SignalBTO, SignalSTC}
Followers == {<<>>} \cup {<<c>> : c \in Alphabet}
FollowTails == {<<>>, <<"x">>, <<" ","x">>}
FollowMessages == {h \o f \o t : h \in FollowHeads, f \in Followers, t \in FollowTails}

InitFollow ==
    /\ pc = "start"
    /\ message \in FollowMessages
    /\ string = message
    /\ parsed = NoneDict
    /\ NoOrderYet

SpecFollow == InitFollow /\ [][NextParse]_vars

(***************************************************************************)
(* Opening orders: a BTO signal at a price, with or without a comment,     *)
(* parsed, validated and handed to process_bto_order under one of two      *)
(* order settings.                                                         *)
(***************************************************************************)
MaxCents == 50

\* "0.dd"
CentsStr(n) == <<"0", ".", DigitSeq[(n \div 10) + 1], DigitSeq[(n % 10) + 1]>>

Prices ==
    {CentsStr(n) : n \in 0..MaxCents}
        \cup {<<".", "0">>, <<".", "4">>, <<"1", ".", "0", "0">>, <<"1", "2", ".", "3">>}

BtoComments ==
    { <<>>,
      <<" ","(","S","L"," ","@",".","3","5",")">>,
      <<" ","r","i","s","k","y">>,
      <<" ","S","L","@",".","6","0">>,
      <<" ","r","i","s","k","y"," ","S","L","@"," ","0",".","0","5">> }

BtoMessages ==
    {<<"B","T","O"," ","I","N","T","C"," ","5","0","C"," ","1","2","/","3","1"," ","@">>
        \o p \o c : p \in Prices, c \in BtoComments}

\* order settings as validate_user_settings lets them through
UserSettings ==
    { [max_ord_val |-> FInt(500), high_risk_ord_val |-> FInt(250),
       buy_limit_percent |-> FDec(5, 2), SL_percent |-> FDec(30, 2)],
      [max_ord_val |-> FInt(110), high_risk_ord_val |-> FInt(55),
       buy_limit_percent |-> FDec(10, 2), SL_percent |-> FDec(20, 2)] }

InitBto ==
    /\ pc = "start"
    /\ message \in BtoMessages
    /\ string = message
    /\ parsed = NoneDict
    /\ usr_set \in UserSettings
    /\ ord_params = NoneDict /\ raised = "no" /\ locals = NoneDict
    /\ calls = <<>> /\ stderr = <<>> /\ pos_qty = NoneDict /\ reduction = NoneDict
    /\ positions = <<>> /\ orders = <<>>

\* the client receives the parsed signal and prepares it for the order code
ValidateOrderParams ==
    /\ pc = "done"
    /\ parsed # NoneDict
    /\ ord_params' = ValidatedOrderParams(parsed)
    /\ pc' = "validated"
    /\ UNCHANGED parser_vars
    /\ UNCHANGED <<usr_set, raised, locals, calls, stderr, pos_qty, reduction, positions, orders>>

ProcessBtoOrder ==
    /\ pc = "validated"
    /\ IsBTO(ord_params)
    /\ LET out == process_bto_order(ord_params, usr_set)
       IN  /\ raised' = out.raised
           /\ locals' = out.locals
           /\ calls' = calls \o out.calls
           /\ stderr' = stderr \o out.stderr
    /\ pc' = "finished"
    /\ UNCHANGED parser_vars
    /\ UNCHANGED <<usr_set, ord_params, pos_qty, reduction, positions, orders>>

NextBto == TextToOrderParams \/ ValidateOrderParams \/ ProcessBtoOrder

SpecBto == InitBto /\ [][NextBto]_vars

(***************************************************************************)
(* Reducing a position: an STC signal with a reduce phrase, a position of  *)
(* up to MaxPosition contracts, and calc_position_reduction applied to     *)
(* the two.                                                                *)
(***************************************************************************)
MaxPosition == 25
MaxPercent == 110

ReduceMessages == {SignalSTC \o <<" ","t","r","i","m"," ">> \o NatStr(k) \o <<"%">> : k \in 0..MaxPercent}

InitReduce ==
    /\ pc = "start"
    /\ message \in ReduceMessages
    /\ string = message
    /\ parsed = NoneDict
    /\ NoOrderYet

\* get_position_quant: the brokerage reports the long quantity of the position
GetPositionQuant ==
    /\ pc = "validated"
    /\ IsSTC(ord_params)
    /\ \E n \in 0..MaxPosition : pos_qty' = FInt(n)
    /\ pc' = "position"
    /\ UNCHANGED parser_vars
    /\ UNCHANGED <<usr_set, ord_params, raised, locals, calls, stderr, reduction, positions, orders>>

CalcPositionReduction ==
    /\ pc = "position"
    /\ ord_params.flags.reduce # NoneDict
    /\ reduction' = calc_position_reduction(pos_qty, ord_params.flags.reduce)
    /\ pc' = "reduced"
    /\ UNCHANGED parser_vars
    /\ UNCHANGED <<usr_set, ord_params, raised, locals, calls, stderr, pos_qty, positions, orders>>

NextReduce ==
    TextToOrderParams \/ ValidateOrderParams \/ GetPositionQuant \/ CalcPositionReduction

SpecReduce == InitReduce /\ [][NextReduce]_vars

(***************************************************************************)
(* Closing orders: an STC signal, with or without a reduce phrase, parsed, *)
(* validated and handed to process_stc_order, which asks the brokerage for *)
(* the positions and the orders of the account.  The account holds up to   *)
(* MaxHeld contracts of the option; the brokerage reports up to MaxOrders  *)
(* orders.                                                                 *)
(***************************************************************************)
MaxHeld == 4
MaxOrders == 2

StcComments ==
    { <<>>,
      <<" ","t","r","i","m"," ","0","%">>,
      <<" ","t","r","i","m"," ","1","%">>,
      <<" ","t","r","i","m"," ","2","8","%">>,
      <<" ","(","C","l","o","s","i","n","g"," ","5","0","%",")">>,
      <<" ","t","r","i","m"," ","1","0","0","%">>,
      <<" ","t","r","i","m"," ","1","5","0","%">> }

StcMessages ==
    {<<"S","T","C"," ","X"," ","5",".","5","P"," ","1","/","2","/","2","1"," ","@">>
        \o p \o c : p \in {<<".","4">>, <<"0",".","4","5">>}, c \in StcComments}

\* the option of StcMessages, and another option
HeldSymbol == <<<<"X">>, <<"1","/","2","/","2","1">>, <<"P">>, <<"5",".","5">>>>
OtherSymbol == <<<<"I","N","T","C">>, <<"1","2","/","3","1">>, <<"C">>, <<"5","0">>>>

\* summary["securitiesAccount"]["positions"]
Position(symbol, n) == [symbol |-> symbol, longQuantity |-> n]
Accounts ==
    {<<>>, <<Position(OtherSymbol, 3)>>}
        \cup {<<Position(HeldSymbol, n)>> : n \in 0..MaxHeld}
        \cup {<<Position(OtherSymbol, 3), Position(HeldSymbol, n)>> : n \in 0..MaxHeld}

Leg(instruct, symbol) == [instruction |-> instruct, symbol |-> symbol]
SingleOrder(id, status, legs) ==
    [orderId |-> id, status |-> status, orderStrategyType |-> "SINGLE",
     orderLegCollection |-> legs, childOrderStrategies |-> <<>>]
TriggerOrder(id, status, legs, child) ==
    [orderId |-> id, status |-> status, orderStrategyType |-> "TRIGGER",
     orderLegCollection |-> legs, childOrderStrategies |-> <<child>>]

\* orders the brokerage may report: stop orders of earlier signals, filled
\* and foreign orders, a two-leg order, opening orders with their stop-loss
OrderBook ==
    << SingleOrder(1, "WORKING", <<Leg("SELL_TO_CLOSE", HeldSymbol)>>),
       SingleOrder(2, "FILLED", <<Leg("SELL_TO_CLOSE", HeldSymbol)>>),
       SingleOrder(3, "QUEUED", <<Leg("SELL_TO_CLOSE", OtherSymbol)>>),
       SingleOrder(4, "WORKING",
                   <<Leg("SELL_TO_CLOSE", HeldSymbol), Leg("BUY_TO_OPEN", OtherSymbol)>>),
       TriggerOrder(5, "FILLED", <<Leg("BUY_TO_OPEN", HeldSymbol)>>,
                    SingleOrder(15, "ACCEPTED", <<Leg("SELL_TO_CLOSE", HeldSymbol)>>)),
       TriggerOrder(6, "WORKING", <<Leg("SELL_TO_CLOSE", HeldSymbol)>>,
                    SingleOrder(16, "WORKING", <<Leg("SELL_TO_CLOSE", HeldSymbol)>>)),
       SingleOrder(7, "ACCEPTED", <<Leg("BUY_TO_OPEN", HeldSymbol)>>) >>

RECURSIVE PickOrders(_, _)
\* the orders of the book whose place is in S, in the order of the book
PickOrders(i, S) ==
    IF i > Len(OrderBook) THEN <<>>
    ELSE (IF i \in S THEN <<OrderBook[i]>> ELSE <<>>) \o PickOrders(i + 1, S)

OrderSummaries ==
    {PickOrders(1, S) : S \in {T \in SUBSET DOMAIN OrderBook : Cardinality(T) <= MaxOrders}}

InitStc ==
    /\ pc = "start"
    /\ message \in StcMessages
    /\ string = message
    /\ parsed = NoneDict
    /\ usr_set \in UserSettings
    /\ ord_params = NoneDict /\ raised = "no" /\ locals = NoneDict
    /\ calls = <<>> /\ stderr = <<>> /\ pos_qty = NoneDict /\ reduction = NoneDict
    /\ positions = <<>> /\ orders = <<>>

ProcessStcOrder ==
    /\ pc = "validated"
    /\ IsSTC(ord_params)
    /\ \E account \in Accounts, summary \in OrderSummaries :
          /\ positions' = account
          /\ orders' = summary
          /\ pos_qty' = get_position_quant(account, build_option_symbol(ord_params))
          /\ calls' = calls \o process_stc_order(ord_params, usr_set, account, summary)
    /\ reduction' = stc_reduction(ord_params, pos_qty')
    /\ pc' = "finished"
    /\ UNCHANGED parser_vars
    /\ UNCHANGED <<usr_set, ord_params, raised, locals, stderr>>

NextStc == TextToOrderParams \/ ValidateOrderParams \/ ProcessStcOrder

SpecStc == InitStc /\ [][NextStc]_vars

(***************************************************************************)
(* Claims about the parser, checked under Spec.                            *)
(***************************************************************************)
\* the number of non-overlapping matches of the signal pattern in the stripped message
MatchCount(str) == Len(re_finditer(regex_pattern, strip_markdown(str)))

Populated(op) ==
    /\ op.instruction # None /\ op.ticker # None /\ op.strike_price # None
    /\ op.contract_type # None /\ op.expiration # None /\ op.contract_price # None

\* C1: text_to_order_params returns a populated record if and only if the
\* stripped message holds exactly one non-overlapping match of the signal
\* pattern; with no match or with two or more it returns None.
C1_ExactlyOneMatch ==
    pc = "done" =>
        IF MatchCount(string) = 1
        THEN parsed # NoneDict /\ Populated(parsed)
        ELSE parsed = NoneDict

\* two signals in one message, and None returned
C1_Witness == pc = "done" /\ MatchCount(string) >= 2 /\ parsed = NoneDict

\* C2: SL and risk_level are set only for BTO and reduce only for STC: an STC
\* message whose comments hold stop-loss or risk text leaves SL and risk_level
\* None, a BTO message whose comments hold a reduce phrase leaves reduce None.
C2_FlagsFollowInstruction ==
    pc = "done" /\ parsed # NoneDict =>
        /\ parsed.flags.SL # None => IsBTO(parsed)
        /\ parsed.flags.risk_level # None => IsBTO(parsed)
        /\ parsed.flags.reduce # None => IsSTC(parsed)
        /\ IsSTC(parsed) => parsed.flags.SL = None /\ parsed.flags.risk_level = None
        /\ IsBTO(parsed) => parsed.flags.reduce = None

\* an STC signal whose comments hold both a stop-loss and risk text
C2_Witness ==
    /\ pc = "done" /\ parsed # NoneDict /\ IsSTC(parsed)
    /\ parsed.comments # None
    /\ parse_sl(parsed.comments) # None /\ parse_risk(parsed.comments) # None
    /\ parsed.flags.SL = None /\ parsed.flags.risk_level = None

\* C9: a populated reduce flag is a percentage between 1 and 100.
C9_ReduceInRange ==
    pc = "done" /\ parsed # NoneDict /\ parsed.flags.reduce # None =>
        ReducePercent(parsed.flags.reduce) \in 1..100

\* the message with every "*" and "_" left out
Unmarked(str) == SelectSeq(str, LAMBDA c : c \notin {"*", "_"})

\* what the tests expect of "BTO INTC 50C 12/31 @0.45"
ORD_PARAMS ==
    [instruction |-> <<"B","T","O">>, ticker |-> <<"I","N","T","C">>,
     strike_price |-> <<"5","0">>, contract_type |-> <<"C">>,
     expiration |-> <<"1","2","/","3","1">>, contract_price |-> <<"0",".","4","5">>,
     comments |-> None, flags |-> [SL |-> None, risk_level |-> None, reduce |-> None]]

\* C10: parsing the stripped message gives what parsing the message gives;
\* strip_markdown deletes every "*" and "_" and is idempotent; a signal with
\* fields wrapped in "**" or "__" parses as the unmarked signal does.
C10_MarkdownInvariance ==
    /\ pc = "stripped" =>
          /\ string = Unmarked(message)
          /\ strip_markdown(string) = string
    /\ pc = "done" /\ string # message => parsed = text_to_order_params(message)
    /\ pc = "done" /\ message = SignalMarkdown => parsed = ORD_PARAMS

\* a marked-up message, stripped by the caller, in which a signal was found
C10_Witness ==
    pc = "done" /\ string # message /\ string = Unmarked(message) /\ parsed # NoneDict

(***************************************************************************)
(* Claims about the reduction of a position, checked under SpecReduce.     *)
(***************************************************************************)
\* the smallest integer not below a / b, for a >= 0 and b > 0
CeilDiv(a, b) == (a + b - 1) \div b

\* position_quantity and reduce_percent as the integers the message and the
\* brokerage gave
PositionQuantity == FTrunc(pos_qty)
ReducePercentGiven == ReducePercent(parsed.flags.reduce)

\* C3: for a position of n >= 0 contracts and a reduce percent k in 1..100
\* the quantity sold is ceil(n * k / 100) and the quantity kept is n less the
\* quantity sold; (3, 50) gives (2, 1) and (10, 100) gives (10, 0).
C3_ReductionFormula ==
    pc = "reduced" /\ ReducePercentGiven \in 1..100 =>
        LET sell == CeilDiv(PositionQuantity * ReducePercentGiven, 100)
        IN  /\ reduction.sell_qty = sell
            /\ FEq(reduction.keep_qty, FInt(PositionQuantity - sell))

\* C4: the quantities sold and kept add up to the position, and at least one
\* contract is sold when the position and the percent are both at least 1.
C4_SellKeepSumToPosition ==
    pc = "reduced" =>
        /\ FEq(FAdd(FInt(reduction.sell_qty), reduction.keep_qty), pos_qty)
        /\ PositionQuantity >= 1 /\ ReducePercentGiven >= 1 => reduction.sell_qty >= 1

\* one contract held and 1% to sell: the one contract is sold, none is kept
C4_Witness ==
    /\ pc = "reduced" /\ PositionQuantity = 1 /\ ReducePercentGiven = 1
    /\ reduction.sell_qty = 1 /\ IsZero(reduction.keep_qty)

(***************************************************************************)
(* Claims about opening orders, checked under SpecBto.  The expected       *)
(* values are worked out in integers: prices in cents, percents in         *)
(* hundredths.                                                             *)
(***************************************************************************)
\* the price a string of the grammar writes, in cents
Cents(str) ==
    LET dot == CHOOSE i \in DOMAIN str : str[i] = "."
        whole == SubSeq(str, 1, dot - 1)
        frac == SubSeq(str, dot + 1, Len(str))
    IN  100 * NatOf(whole) + (IF Len(frac) = 1 THEN 10 * NatOf(frac) ELSE NatOf(frac))

\* a setting that is a whole number of hundredths, in hundredths
Hundredths(x) == CHOOSE d \in 0..100 : FEq(FDec(d, 2), x)
\* a setting that is a whole number of dollars, in dollars
Dollars(x) == FTrunc(x)

Abs(n) == IF n < 0 THEN -n ELSE n

OrderPlaced == calls # <<>>
\* the stop price of the stop-loss order that was placed with the opening order
StopPricePlaced == calls[1].order_spec.second.stop_price

\* cp * (1 - chosen percent), in ten-thousandths of a dollar, where the
\* chosen percent is the smaller of (cp - sl) / cp and the default
StopLossTarget ==
    LET c == Cents(parsed.contract_price)
        d == Hundredths(usr_set.SL_percent)
    IN  IF parsed.flags.SL # None /\ 100 * (c - Cents(parsed.flags.SL)) < d * c
        THEN 100 * Cents(parsed.flags.SL)
        ELSE c * (100 - d)

\* C5: the stop-loss price of an opening order is contract_price * (1 - p)
\* rounded to 2 decimals, p being the smaller of the message's percent
\* (contract_price - SL) / contract_price and the user's default when the
\* message carries a stop-loss and the default otherwise; 0.45 with SL .35
\* and default 0.30 gives 0.35.
C5_StopLossSelection ==
    pc = "finished" /\ OrderPlaced =>
        /\ \E n \in {StopLossTarget \div 100, (StopLossTarget \div 100) + 1} :
              /\ Abs(100 * n - StopLossTarget) <= 50
              /\ FEq(StopPricePlaced, FDec(n, 2))
        /\ parsed.contract_price = <<"0",".","4","5">>
              /\ parsed.flags.SL = <<".","3","5">> /\ Hundredths(usr_set.SL_percent) = 30
           => FEq(StopPricePlaced, FDec(35, 2))

\* the message's stop-loss is the smaller drop and is the one placed
C5_Witness ==
    /\ pc = "finished" /\ OrderPlaced
    /\ parsed.contract_price = <<"0",".","4","5">> /\ parsed.flags.SL = <<".","3","5">>
    /\ Hundredths(usr_set.SL_percent) = 30
    /\ FEq(StopPricePlaced, FDec(35, 2))

\* the order value the risk level selects, in dollars
OrderValueSelected ==
    IF parsed.flags.risk_level = high_risk
    THEN Dollars(usr_set.high_risk_ord_val) ELSE Dollars(usr_set.max_ord_val)

\* C6: the purchase quantity is
\* floor(order_value / (contract_price * 100 * (1 + buy_limit_percent))),
\* order_value being the high-risk order value for a "high risk" signal and
\* the max order value otherwise; 500 at 0.45 with limit 0.05 gives 10.
C6_QuantityIsFloor ==
    pc = "finished" /\ locals # NoneDict =>
        /\ FEq(locals.order_value, FInt(OrderValueSelected))
        /\ locals.buy_qty =
              (100 * OrderValueSelected)
                  \div (Cents(parsed.contract_price)
                            * (100 + Hundredths(usr_set.buy_limit_percent)))

\* C7: process_bto_order places an order with the broker if and only if the
\* quantity it computed is at least 1; with a quantity of 0 it places none
\* and returns without raising.
C7_PlacedIffQuantity ==
    pc = "finished" /\ locals # NoneDict =>
        /\ OrderPlaced <=> locals.buy_qty >= 1
        /\ OrderPlaced =>
              /\ Len(calls) = 1 /\ calls[1].call = "place_order"
              /\ calls[1].order_spec.first.quantity = locals.buy_qty
        /\ locals.buy_qty = 0 => calls = <<>> /\ raised = "no"

\* a signal too dear for the order value: nothing placed, nothing raised
C7_Witness ==
    /\ pc = "finished" /\ locals # NoneDict /\ locals.buy_qty = 0
    /\ calls = <<>> /\ raised = "no" /\ stderr # <<>>

\* C8: for every contract price the grammar accepts, ".0" and "0.00" among
\* them, the computations of process_bto_order complete with a value and
\* without a fault.
C8_NoFault ==
    pc = "finished" => raised = "no" /\ locals # NoneDict

(***************************************************************************)
(* Claims about closing orders, checked under SpecStc.                     *)
(***************************************************************************)
\* the orders placed and the cancel requests issued, in the order of the calls
PlaceCalls == SelectSeq(calls, LAMBDA c : c.call = "place_order")
CancelCalls == SelectSeq(calls, LAMBDA c : c.call = "cancel_order")

\* the position lookup found a position of at least one contract
PositionHeld == pos_qty # NoneDict /\ FTrunc(pos_qty) >= 1

\* a market order to sell the option of the message
IsMarketSell(order_spec) ==
    /\ order_spec.instruction = "SELL_TO_CLOSE" /\ order_spec.order_type = "MARKET"
    /\ order_spec.symbol = HeldSymbol

\* C11: an STC order without a reduce flag on a position of at least one
\* contract sells the whole position: exactly one order is placed, a market
\* sell for the position quantity, and no stop order.
C11_SellEntirePosition ==
    pc = "finished" /\ parsed.flags.reduce = None /\ PositionHeld =>
        /\ Len(PlaceCalls) = 1
        /\ IsMarketSell(PlaceCalls[1].order_spec)
        /\ FEq(PlaceCalls[1].order_spec.quantity, pos_qty)

\* three contracts held behind another position, an earlier stop order
\* cancelled, and the three sold at the market
C11_Witness ==
    /\ pc = "finished" /\ parsed.flags.reduce = None
    /\ Len(positions) = 2 /\ FEq(pos_qty, FInt(3))
    /\ Len(CancelCalls) = 1 /\ Len(PlaceCalls) = 1
    /\ IsMarketSell(PlaceCalls[1].order_spec)
    /\ FEq(PlaceCalls[1].order_spec.quantity, FInt(3))

\* C13: process_stc_order issues a cancel request for every in-effect STC
\* order it found for the option before it places a sell order: among its
\* calls no place_order comes before a cancel_order.
C13_CancelBeforePlace ==
    pc = "finished" =>
        /\ \A i, j \in DOMAIN calls :
              calls[i].call = "place_order" /\ calls[j].call = "cancel_order" => j < i
        /\ PositionHeld =>
              /\ CancelCalls = cancel_existing(get_existing_stc_orders(orders, HeldSymbol))
              /\ PlaceCalls # <<>>

\* two orders found, two cancel requests, and the sell order behind them
C13_Witness ==
    /\ pc = "finished" /\ Len(get_existing_stc_orders(orders, HeldSymbol)) = 2
    /\ Len(calls) >= 3
    /\ calls[1].call = "cancel_order" /\ calls[2].call = "cancel_order"
    /\ calls[3].call = "place_order"

\* keep_qty > 0
KeepsSome == FLess(FZero, reduction.keep_qty)

\* contract_price * (1 - default stop-loss percent), in ten-thousandths of
\* a dollar
ReplacementStopTarget ==
    Cents(parsed.contract_price) * (100 - Hundredths(usr_set.SL_percent))

\* a stop-market order to sell q contracts of the option at the replacement
\* stop price, rounded to the cent
IsReplacementStop(order_spec, q) ==
    /\ order_spec.instruction = "SELL_TO_CLOSE" /\ order_spec.order_type = "STOP"
    /\ order_spec.symbol = HeldSymbol
    /\ FEq(order_spec.quantity, q)
    /\ FEq(order_spec.stop_price, calc_sl_price(ord_params.contract_price, usr_set.SL_percent))
    /\ \E n \in {ReplacementStopTarget \div 100, (ReplacementStopTarget \div 100) + 1} :
          /\ Abs(100 * n - ReplacementStopTarget) <= 50
          /\ FEq(order_spec.stop_price, FDec(n, 2))

\* C14: with a reduce flag, process_stc_order first places the market sell
\* for sell_quantity and afterwards, if and only if keep_quantity > 0, a
\* stop-market order for keep_quantity contracts at
\* round(contract_price * (1 - default stop-loss percent), 2).
C14_SellThenReplacementStop ==
    pc = "finished" /\ parsed.flags.reduce # None /\ PositionHeld =>
        /\ PlaceCalls # <<>>
        /\ IsMarketSell(PlaceCalls[1].order_spec)
        /\ PlaceCalls[1].order_spec.quantity = reduction.sell_qty
        /\ Len(PlaceCalls) = IF KeepsSome THEN 2 ELSE 1
        /\ KeepsSome => IsReplacementStop(PlaceCalls[2].order_spec, reduction.keep_qty)

\* half of three contracts: two sold at the market, then a stop for the one kept
C14_Witness ==
    /\ pc = "finished" /\ parsed.flags.reduce = <<"5","0","%">> /\ PositionHeld
    /\ FEq(pos_qty, FInt(3))
    /\ Len(PlaceCalls) = 2
    /\ IsMarketSell(PlaceCalls[1].order_spec) /\ PlaceCalls[1].order_spec.quantity = 2
    /\ IsReplacementStop(PlaceCalls[2].order_spec, FInt(1))

\* C15: when the position lookup returns nothing, or a quantity below 1,
\* process_stc_order cancels no order and places no order.
C15_NothingWithoutPosition ==
    pc = "finished" /\ ~PositionHeld => calls = <<>>

\* the option is in the account with no contract left, a stop order for it
\* is still in effect, and no call is made
C15_Witness ==
    /\ pc = "finished" /\ pos_qty # NoneDict /\ IsZero(pos_qty)
    /\ get_existing_stc_orders(orders, HeldSymbol) # <<>>
    /\ calls = <<>>

\* C17: for a position of at least one contract and any reduce value that
\* parse_reduce returns, 0% and values above 100% among them, keep_qty is
\* not negative and sell_qty is not above the position, and so the sell
\* order placed is not for more than is held.
C17_SellWithinPosition ==
    pc = "finished" /\ parsed.flags.reduce # None /\ PositionHeld =>
        /\ ~FLess(reduction.keep_qty, FZero)
        /\ reduction.sell_qty <= PositionQuantity
        /\ PlaceCalls # <<>> /\ PlaceCalls[1].order_spec.quantity <= PositionQuantity

(***************************************************************************)
(* Claims about what follows a signal, checked under SpecFollow.           *)
(***************************************************************************)
\* the signal the argument starts with, and what stands behind it
SignalOf(str) == CHOOSE h \in FollowHeads : Len(h) <= Len(str) /\ SubSeq(str, 1, Len(h)) = h
BehindSignal(str) == SubSeq(str, Len(SignalOf(str)) + 1, Len(str))

Boundary == Whitespace \cup {"("}

\* a populated result's price is followed, in the cleaned string, by the
\* end, by whitespace or by "(", and there the comments begin
PriceAtBoundary ==
    parsed # NoneDict /\ parsed.comments # None => parsed.comments[1] \in Boundary

\* a signal directly followed by "(" parses, with the comments from the "(" on
ParenthesisStartsComments ==
    BehindSignal(string) # <<>> /\ BehindSignal(string)[1] = "("
        => parsed # NoneDict /\ parsed.comments = strip_markdown(BehindSignal(string))

\* C12: a signal matches only if its contract price is directly followed by
\* the end of the string, whitespace or "("; a signal followed directly by
\* any other character gives None; followed by "(" it parses and the
\* comments start at the "(".
C12_FollowedByOther ==
    pc = "done" =>
        /\ PriceAtBoundary
        /\ BehindSignal(string) # <<>> /\ BehindSignal(string)[1] \notin Boundary
              => parsed = NoneDict
        /\ ParenthesisStartsComments

\* what stands behind the price once the markdown is removed and a digit
\* behind a price of one decimal is taken as the price's second decimal
BehindPrice(str) ==
    LET h == SignalOf(str)
        r == strip_markdown(BehindSignal(str))
    IN  IF h[Len(h) - 1] = "." /\ r # <<>> /\ r[1] \in Digits THEN Tail(r) ELSE r

\* C12 (amended): as C12, except that "*" and "_" are removed before the
\* match and a digit directly behind a price of one decimal becomes the
\* price's second decimal: the result is populated exactly when what then
\* stands behind the price is nothing or starts with whitespace or "(".
C12_FollowedByOtherAmended ==
    pc = "done" =>
        /\ PriceAtBoundary
        /\ parsed # NoneDict <=>
              BehindPrice(string) = <<>> \/ BehindPrice(string)[1] \in Boundary
        /\ ParenthesisStartsComments

\* "@ .4" directly followed by "5": parsed, at the price .45
C12_Witness ==
    /\ pc = "done" /\ string = SignalSTC \o <<"5">>
    /\ parsed # NoneDict /\ parsed.contract_price = <<".","4","5">> /\ parsed.comments = None

(***************************************************************************)
(* Further claims about opening orders, checked under SpecBto.             *)
(***************************************************************************)
\* the limit price and the quantity of the opening order that was placed
LimitPricePlaced == calls[1].order_spec.first.price
QuantityPlaced == calls[1].order_spec.first.quantity

\* contract_price * (1 + buy_limit_percent), in ten-thousandths of a dollar
BuyLimitTarget ==
    Cents(parsed.contract_price) * (100 + Hundredths(usr_set.buy_limit_percent))

\* C16: for every opening order placed, quantity * 100 * buy_limit_price
\* is at most the selected order value, buy_limit_price being
\* contract_price * (1 + buy_limit_percent) rounded to 2 decimals.
C16_CommittedWithinOrderValue ==
    pc = "finished" /\ OrderPlaced =>
        \E n \in {BuyLimitTarget \div 100, (BuyLimitTarget \div 100) + 1} :
            /\ Abs(100 * n - BuyLimitTarget) <= 50
            /\ FEq(LimitPricePlaced, FDec(n, 2))
            /\ QuantityPlaced * n <= OrderValueSelected

\* C18: for every opening order placed, the stop-loss price is not above
\* the contract price, and so not above the buy limit price, whatever
\* stop-loss the message carries.
C18_StopNotAboveContractPrice ==
    pc = "finished" /\ OrderPlaced =>
        /\ FLessEq(StopPricePlaced, ord_params.contract_price)
        /\ FLessEq(StopPricePlaced, LimitPricePlaced)

====
